---- MODULE Spec2Model ----
(***************************************************************************)
(* Model of assignment5/src/main.c: a periodic sampler (thread A), a       *)
(* trimmed-mean filter (thread B) and a PWM actuator (thread C), which     *)
(* hand values over through the shared integers ab and bc and the binary   *)
(* semaphores sem_ab and sem_bc.                                           *)
(*                                                                         *)
(* Every thread is modelled statement by statement through a program       *)
(* counter (pcA, pcB, pcC); one action is one statement (or one run of     *)
(* statements that touch only the thread's locals).  The sensor is the     *)
(* environment: feed lists, for each coming call of adc_read, the set of   *)
(* outcomes the call may have.                                             *)
(***************************************************************************)
EXTENDS Integers, Sequences, FiniteSets, TLC

(***************************************************************************)
(* Program constants                                                       *)
(***************************************************************************)
dados_size == 10

SAMP_PERIOD_MS == 1000

MAX_RAW == 1023

pwmPeriod_us == 1000

SemLimit == 1

SemInitial == 0

(***************************************************************************)
(* Bounds of the model                                                     *)
(***************************************************************************)
\* Sampler cycles explored by the preemptive specification
MaxCycles == 2

\* most clock quanta (of one sampling period each) that pass between two
\* readings of the clock by thread A
MaxLate == 1

\* length of the feeds of the cooperative specification that fill the window
LongLen == 11

\* length of the feeds of the cooperative specification over FilterVals
ShortLen == 3

(***************************************************************************)
(* Unsigned binary numerals, least significant bit first, used to compute  *)
(* IEEE-754 binary64 arithmetic exactly.                                   *)
(***************************************************************************)
RECURSIVE Bits(_)
Bits(n) == IF n = 0 THEN <<>> ELSE <<n % 2>> \o Bits(n \div 2)

Bit(a, i) == IF i >= 1 /\ i <= Len(a) THEN a[i] ELSE 0

RECURSIVE Norm(_)
Norm(a) == IF a = <<>> THEN <<>>
           ELSE IF a[Len(a)] = 1 THEN a
           ELSE Norm(SubSeq(a, 1, Len(a) - 1))

RECURSIVE AddFrom(_, _, _, _)
AddFrom(a, b, i, c) ==
  IF i > Len(a) /\ i > Len(b)
  THEN IF c = 0 THEN <<>> ELSE <<1>>
  ELSE LET s == Bit(a, i) + Bit(b, i) + c
       IN  <<s % 2>> \o AddFrom(a, b, i + 1, s \div 2)

BAdd(a, b) == Norm(AddFrom(a, b, 1, 0))

RECURSIVE SubFrom(_, _, _, _)
SubFrom(a, b, i, c) ==
  IF i > Len(a) /\ i > Len(b)
  THEN <<>>
  ELSE LET s == Bit(a, i) - Bit(b, i) - c
       IN  <<s % 2>> \o SubFrom(a, b, i + 1, IF s < 0 THEN 1 ELSE 0)

\* a - b for a >= b
BSub(a, b) == Norm(SubFrom(a, b, 1, 0))

Zeros(k) == [i \in 1..k |-> 0]

BShl(a, k) == IF a = <<>> THEN <<>> ELSE Zeros(k) \o a

RECURSIVE MulFrom(_, _, _, _)
MulFrom(n, a, i, c) ==
  IF i > Len(a)
  THEN Bits(c)
  ELSE LET s == n * a[i] + c
       IN  <<s % 2>> \o MulFrom(n, a, i + 1, s \div 2)

\* n * a for a small natural number n
BMul(n, a) == Norm(MulFrom(n, a, 1, 0))

RECURSIVE LessFrom(_, _, _)
LessFrom(a, b, i) ==
  IF i = 0 THEN FALSE
  ELSE IF a[i] # b[i] THEN a[i] < b[i]
  ELSE LessFrom(a, b, i - 1)

\* a < b, both normalised
BLess(a, b) ==
  IF Len(a) # Len(b) THEN Len(a) < Len(b) ELSE LessFrom(a, b, Len(a))

(***************************************************************************)
(* binary64: a double is held as the numeral of its value in units of      *)
(* 2^-56 (every double the filter forms is a multiple of it).              *)
(***************************************************************************)
DblMantBits == 53

DblUnitExp == 56

\* round to nearest, ties to even, to a 53-bit significand
DblRound(a) ==
  IF Len(a) <= DblMantBits THEN a
  ELSE LET k      == Len(a) - DblMantBits
           q      == SubSeq(a, k + 1, Len(a))
           half   == a[k] = 1
           sticky == \E i \in 1..(k - 1) : a[i] = 1
           up     == half /\ (sticky \/ q[1] = 1)
       IN  BShl(IF up THEN BAdd(q, <<1>>) ELSE q, k)

\* (double) n for an int n >= 0: exact
DblOfInt(n) == BShl(Bits(n), DblUnitExp)

RECURSIVE HexBits(_)
HexBits(h) ==
  IF h = <<>> THEN <<>>
  ELSE HexBits(Tail(h)) \o [i \in 1..4 |-> (Head(h) \div (2 ^ (i - 1))) % 2]

\* the literal 0.1 is the double 0x1.999999999999ap-4 = 0x1999999999999A * 2^-56
DblTenth == Norm(HexBits(<<1, 9, 9, 9, 9, 9, 9, 9, 9, 9, 9, 9, 9, 10>>))

\* Avg*0.1 : int times double, one rounding
DblTenthOf(n) == DblRound(BMul(n, DblTenth))

\* Avg - Avg*0.1 and Avg + Avg*0.1, one more rounding each
BandLow(avg) == DblRound(BSub(DblOfInt(avg), DblTenthOf(avg)))

BandHigh(avg) == DblRound(BAdd(DblOfInt(avg), DblTenthOf(avg)))

(***************************************************************************)
(* State                                                                   *)
(***************************************************************************)
VARIABLES
  ab, bc,                 \* shared memory between tasks A/B and B/C
  sem_ab, sem_bc,         \* counts of the two semaphores
  pcA, err, adc_sample_buffer, release_time, fin_time,   \* thread A
  pcB, dados, Avg,        \* thread B
  pcC, ret, pwm,          \* thread C and the PWM output it last set
  now,                    \* the uptime in ms, as of thread A's last look at it
  feed,                   \* outcomes the coming adc_read calls may have
  cycA, abCyc, pend, burst,   \* history of the A/B handover
  hist, bcIt, pendBC, burstBC, \* history of the B/C handover
  cmds                    \* number of PWM commands thread C has issued

varsA == <<pcA, err, adc_sample_buffer, release_time, fin_time>>

varsB == <<pcB, dados, Avg>>

varsC == <<pcC, ret, pwm>>

histAB == <<cycA, abCyc, pend, burst>>

histBC == <<hist, bcIt, pendBC, burstBC, cmds>>

vars == <<ab, bc, sem_ab, sem_bc, varsA, varsB, varsC, now, feed, histAB, histBC>>

\* the grain of the clock: one sampling period
Quantum == SAMP_PERIOD_MS

\* what one adc_read may do: a negative error code, or a sample (uint16_t)
Readings == {-5, 500, 1023, 1024}

\* what pwm_pin_set_usec may return
PwmRets == {0, -5}

(***************************************************************************)
(* Semaphores: k_sem_init(&sem, 0, 1), k_sem_give, k_sem_take(K_FOREVER)   *)
(***************************************************************************)
k_sem_give_counting(count) == count + 1

k_sem_give(count) == IF count < SemLimit THEN count + 1 ELSE count

\* a mutated test: a take that does not wait for a give (K_NO_WAIT)
k_sem_can_take_no_wait(count) == TRUE

\* a mutated test: a take that needs more than the limit allows
k_sem_can_take_above(count) == count > SemLimit

k_sem_can_take(count) == count > 0

k_sem_take(count) == count - 1

(***************************************************************************)
(* Thread A: lines 168-222                                                 *)
(***************************************************************************)
\* a mutated statement order: the give placed before the store
GiveBeforeStore(pc) ==
  CASE pc = "sample" -> "give"
    [] pc = "give"   -> "store"
    [] pc = "store"  -> "time"

\* the order of the statements of the loop body: sample, store, give, timing
OrderA(pc) ==
  CASE pc = "sample" -> "store"
    [] pc = "store"  -> "give"
    [] pc = "give"   -> "time"

\* k_uptime_get(): the clock is monotonic; since it was last looked at, any
\* number of quanta up to MaxLate has passed
k_uptime_get(last) == {last + k * Quantum : k \in 0..MaxLate}

\* line 178
A_init ==
  /\ pcA = "init"
  /\ \E t \in k_uptime_get(now) :
       /\ now' = t
       /\ release_time' = t + SAMP_PERIOD_MS
  /\ pcA' = "sample"
  /\ UNCHANGED <<ab, bc, sem_ab, sem_bc, err, adc_sample_buffer, fin_time,
                 varsB, varsC, feed, histAB, histBC>>

\* line 196, adc_sample(): a failed adc_read leaves the buffer as it was
A_sample ==
  /\ pcA = "sample"
  /\ feed # <<>>
  /\ \E r \in Head(feed) :
       /\ err' = IF r < 0 THEN r ELSE 0
       /\ adc_sample_buffer' = IF r < 0 THEN adc_sample_buffer ELSE r
  /\ feed' = Tail(feed)
  /\ cycA' = cycA + 1
  /\ pcA' = OrderA("sample")
  /\ UNCHANGED <<ab, bc, sem_ab, sem_bc, release_time, fin_time,
                 varsB, varsC, now, abCyc, pend, burst, histBC>>

\* a mutated test: the range of the sample is not looked at
StoresAnySample(e, buf) == e = 0

\* the reading is stored: the read succeeded and the sample is in range
Stores(e, buf) == e = 0 /\ ~(buf > MAX_RAW)

\* lines 197-209
A_store ==
  /\ pcA = "store"
  /\ ab' = IF Stores(err, adc_sample_buffer) THEN adc_sample_buffer ELSE ab
  /\ abCyc' = cycA
  /\ pcA' = OrderA("store")
  /\ UNCHANGED <<bc, sem_ab, sem_bc, err, adc_sample_buffer, release_time, fin_time,
                 varsB, varsC, now, feed, cycA, pend, burst, histBC>>

\* a mutated give: one that waits while the count is at its limit
A_give_blocking ==
  /\ pcA = "give"
  /\ sem_ab < SemLimit
  /\ sem_ab' = sem_ab + 1
  /\ pend' = Append(pend, [cyc |-> cycA, val |-> ab])
  /\ pcA' = OrderA("give")
  /\ UNCHANGED <<ab, bc, sem_bc, err, adc_sample_buffer, release_time, fin_time,
                 varsB, varsC, now, feed, cycA, abCyc, burst, histBC>>

\* line 213
A_give ==
  /\ pcA = "give"
  /\ sem_ab' = k_sem_give(sem_ab)
  /\ pend' = Append(pend, [cyc |-> cycA, val |-> ab])
  /\ pcA' = OrderA("give")
  /\ UNCHANGED <<ab, bc, sem_bc, err, adc_sample_buffer, release_time, fin_time,
                 varsB, varsC, now, feed, cycA, abCyc, burst, histBC>>

\* a mutated timing: the release instant is advanced in a cycle that does not
\* sleep as well
A_time_advancing ==
  /\ pcA = "time"
  /\ \E t \in k_uptime_get(now) :
       /\ now' = t
       /\ fin_time' = t
       /\ pcA' = IF t < release_time THEN "sleep" ELSE "sample"
       /\ release_time' = IF t < release_time THEN release_time
                          ELSE release_time + SAMP_PERIOD_MS
  /\ UNCHANGED <<ab, bc, sem_ab, sem_bc, err, adc_sample_buffer,
                 varsB, varsC, feed, histAB, histBC>>

\* lines 216-217
A_time ==
  /\ pcA = "time"
  /\ \E t \in k_uptime_get(now) :
       /\ now' = t
       /\ fin_time' = t
       /\ pcA' = IF t < release_time THEN "sleep" ELSE "sample"
  /\ UNCHANGED <<ab, bc, sem_ab, sem_bc, err, adc_sample_buffer, release_time,
                 varsB, varsC, feed, histAB, histBC>>

\* lines 218-219: k_msleep(release_time - fin_time) has slept its time, then
\* the release instant is advanced
A_wake ==
  /\ pcA = "sleep"
  /\ now' = fin_time + (release_time - fin_time)
  /\ release_time' = release_time + SAMP_PERIOD_MS
  /\ pcA' = "sample"
  /\ UNCHANGED <<ab, bc, sem_ab, sem_bc, err, adc_sample_buffer, fin_time,
                 varsB, varsC, feed, histAB, histBC>>

ThreadA == A_init \/ A_sample \/ A_store \/ A_give \/ A_time \/ A_wake

(***************************************************************************)
(* Thread B: lines 237-302                                                 *)
(***************************************************************************)
\* a mutated loop: it stops one element early, for(...; l > 1; l--)
RECURSIVE ShiftLoopEarly(_, _)
ShiftLoopEarly(d, l) ==
  IF l > 1 THEN ShiftLoopEarly([d EXCEPT ![l] = d[l - 1]], l - 1) ELSE d

\* lines 256-258: for(l = dados_size-1; l > 0; l--) dados[l] = dados[l-1]
RECURSIVE ShiftLoop(_, _)
ShiftLoop(d, l) ==
  IF l > 0 THEN ShiftLoop([d EXCEPT ![l] = d[l - 1]], l - 1) ELSE d

\* a mutated rotation: the saved last element is not written back
RotateNoWrap(d) == ShiftLoop(d, dados_size - 1)

\* lines 255-259
Rotate(d) ==
  LET x == d[dados_size - 1]
  IN  [ShiftLoop(d, dados_size - 1) EXCEPT ![0] = x]

\* a mutated test: every entry counts
CountsAll(v) == TRUE

\* line 263
Counts(v) == v # 0

\* lines 262-269: <<sum1, cnt1>>
RECURSIVE Pass1Loop(_, _, _, _)
Pass1Loop(d, i, sum1, cnt1) ==
  IF i < dados_size
  THEN IF Counts(d[i])
       THEN Pass1Loop(d, i + 1, sum1 + d[i], cnt1 + 1)
       ELSE Pass1Loop(d, i + 1, sum1, cnt1)
  ELSE <<sum1, cnt1>>

\* a mutated mean: the sum is not divided by the count
MeanIsSum(sc) == sc[1]

\* lines 272-275 and 290-293: int division of non-negative ints
Mean(sc) == IF sc[2] # 0 THEN sc[1] \div sc[2] ELSE 0

\* lines 262-275
Pass1(d) == Mean(Pass1Loop(d, 0, 0, 0))

\* a mutated test: the band taken without its end points
DiscardedStrict(v, lo, hi) ==
  ~ (BLess(lo, DblOfInt(v)) /\ BLess(DblOfInt(v), hi))

\* a mutated test: && in place of ||
DiscardedBoth(v, lo, hi) ==
  BLess(DblOfInt(v), lo) /\ BLess(hi, DblOfInt(v))

\* line 281: dados[j] < (Avg - Avg*0.1) || dados[j] > (Avg + Avg*0.1), in double
Discarded(v, lo, hi) ==
  BLess(DblOfInt(v), lo) \/ BLess(hi, DblOfInt(v))

\* lines 280-287: <<sum2, cnt2>>
RECURSIVE Pass2Loop(_, _, _, _, _, _)
Pass2Loop(d, j, lo, hi, sum2, cnt2) ==
  IF j < dados_size
  THEN IF Discarded(d[j], lo, hi)
       THEN Pass2Loop(d, j + 1, lo, hi, sum2, cnt2)
       ELSE Pass2Loop(d, j + 1, lo, hi, sum2 + d[j], cnt2 + 1)
  ELSE <<sum2, cnt2>>

\* the two ends of the band for every value Avg can have after pass 1
Band == [avg \in 0..MAX_RAW |-> <<BandLow(avg), BandHigh(avg)>>]

\* lines 280-293
Pass2(d, avg) == Mean(Pass2Loop(d, 0, Band[avg][1], Band[avg][2], 0, 0))

\* line 248
B_take ==
  /\ pcB = "take"
  /\ k_sem_can_take(sem_ab)
  /\ sem_ab' = k_sem_take(sem_ab)
  /\ burst' = pend
  /\ pend' = <<>>
  /\ pcB' = "read"
  /\ UNCHANGED <<ab, bc, sem_bc, varsA, dados, Avg, varsC, now, feed,
                 cycA, abCyc, histBC>>

\* line 252
B_read ==
  /\ pcB = "read"
  /\ dados' = [dados EXCEPT ![0] = ab]
  /\ hist' = Append(hist, ab)
  /\ pcB' = "rotate"
  /\ UNCHANGED <<ab, bc, sem_ab, sem_bc, varsA, Avg, varsC, now, feed,
                 histAB, bcIt, pendBC, burstBC, cmds>>

\* lines 255-259
B_rotate ==
  /\ pcB = "rotate"
  /\ dados' = Rotate(dados)
  /\ pcB' = "pass1"
  /\ UNCHANGED <<ab, bc, sem_ab, sem_bc, varsA, Avg, varsC, now, feed,
                 histAB, histBC>>

\* lines 262-275
B_pass1 ==
  /\ pcB = "pass1"
  /\ Avg' = Pass1(dados)
  /\ pcB' = "pass2"
  /\ UNCHANGED <<ab, bc, sem_ab, sem_bc, varsA, dados, varsC, now, feed,
                 histAB, histBC>>

\* lines 280-293
B_pass2 ==
  /\ pcB = "pass2"
  /\ Avg' = Pass2(dados, Avg)
  /\ pcB' = "publish"
  /\ UNCHANGED <<ab, bc, sem_ab, sem_bc, varsA, dados, varsC, now, feed,
                 histAB, histBC>>

\* line 297
B_publish ==
  /\ pcB = "publish"
  /\ bc' = Avg
  /\ bcIt' = Len(hist)
  /\ pcB' = "give"
  /\ UNCHANGED <<ab, sem_ab, sem_bc, varsA, dados, Avg, varsC, now, feed,
                 histAB, hist, pendBC, burstBC, cmds>>

\* line 300, then line 245 of the next iteration (Avg = 0)
B_give ==
  /\ pcB = "give"
  /\ sem_bc' = k_sem_give(sem_bc)
  /\ pendBC' = Append(pendBC, [it |-> Len(hist), val |-> bc])
  /\ Avg' = 0
  /\ pcB' = "take"
  /\ UNCHANGED <<ab, bc, sem_ab, varsA, dados, varsC, now, feed,
                 histAB, hist, bcIt, burstBC, cmds>>

ThreadB == B_take \/ B_read \/ B_rotate \/ B_pass1 \/ B_pass2 \/ B_publish \/ B_give

(***************************************************************************)
(* Thread C: lines 312-349, from the loop on (both devices bound)          *)
(***************************************************************************)
\* x mod 2^32 for 0 <= x < 2^31: the value of an unsigned int expression
Wrap32(x) == ((x \div 65536) % 65536) * 65536 + (x % 65536)

\* a mutated pulse: the divisor of the printk of line 347
PulseOfPrinted(period, v) == Wrap32(period * v) \div 10023

\* a mutated pulse: the product held in 16 bits
PulseOf16(period, v) == ((period * v) % 65536) \div MAX_RAW

\* line 341: (unsigned int)((pwmPeriod_us*bc)/1023)
PulseOf(period, v) == Wrap32(period * v) \div MAX_RAW

\* lines 336-337
C_take ==
  /\ pcC = "take"
  /\ k_sem_can_take(sem_bc)
  /\ sem_bc' = k_sem_take(sem_bc)
  /\ ret' = 0
  /\ burstBC' = pendBC
  /\ pendBC' = <<>>
  /\ pcC' = "set"
  /\ UNCHANGED <<ab, bc, sem_ab, varsA, varsB, pwm, now, feed,
                 histAB, hist, bcIt, cmds>>

\* lines 340-342, pwm_pin_set_usec returns 0: the command is applied
C_set ==
  /\ pcC = "set"
  /\ ret' = 0
  /\ pwm' = [period |-> pwmPeriod_us, pulse |-> PulseOf(pwmPeriod_us, bc)]
  /\ cmds' = cmds + 1
  /\ pcC' = "take"
  /\ UNCHANGED <<ab, bc, sem_ab, sem_bc, varsA, varsB, now, feed, histAB,
                 hist, bcIt, pendBC, burstBC>>

\* a mutated error path: the error is logged and the loop goes on
C_fail_continue ==
  /\ pcC = "set"
  /\ \E r \in PwmRets \ {0} : ret' = r
  /\ pcC' = "take"
  /\ UNCHANGED <<ab, bc, sem_ab, sem_bc, varsA, varsB, pwm, now, feed,
                 histAB, histBC>>

\* lines 340-345, pwm_pin_set_usec returns an error: the thread returns
C_fail ==
  /\ pcC = "set"
  /\ \E r \in PwmRets \ {0} : ret' = r
  /\ pcC' = "done"
  /\ UNCHANGED <<ab, bc, sem_ab, sem_bc, varsA, varsB, pwm, now, feed,
                 histAB, histBC>>

ThreadC == C_take \/ C_set \/ C_fail

(***************************************************************************)
(* Spec: the three threads preempt one another at any statement.           *)
(***************************************************************************)
InitCommon ==
  /\ ab = 0 /\ bc = 0
  /\ sem_ab = SemInitial /\ sem_bc = SemInitial
  /\ pcA = "init" /\ err = 0 /\ adc_sample_buffer = 0
  /\ release_time = 0 /\ fin_time = 0
  /\ pcB = "take" /\ dados = [i \in 0..(dados_size - 1) |-> 0] /\ Avg = 0
  /\ pcC = "take" /\ ret = 0 /\ pwm = [period |-> 0, pulse |-> 0]
  /\ now = 0
  /\ cycA = 0 /\ abCyc = 0 /\ pend = <<>> /\ burst = <<>>
  /\ hist = <<>> /\ bcIt = 0 /\ pendBC = <<>> /\ burstBC = <<>> /\ cmds = 0

Init ==
  /\ InitCommon
  /\ feed = [i \in 1..MaxCycles |-> Readings]

Next == ThreadA \/ ThreadB \/ ThreadC

Spec == Init /\ [][Next]_vars

(***************************************************************************)
(* SpecCoop: the threads have the same priority (lines 41-43) and, without *)
(* time slicing, a thread runs until it blocks: A until it sleeps, then B  *)
(* until it waits for sem_ab, then C until it waits for sem_bc; A wakes    *)
(* when its sleep has run out.  The sensor follows one of a few scripts.   *)
(***************************************************************************)
\* samples 1, 2, 3, ...: more than fill the window, all different
LongFeed == [i \in 1..LongLen |-> {i}]

\* the window 100,102,98,101,99,400,97,103,100,98 (newest first), oldest first
OutlierFeed == <<{98}, {100}, {103}, {97}, {400}, {99}, {101}, {98}, {102}, {100}>>

\* samples around the ends of the band, a zero sample and the largest sample
FilterVals == {0, 9, 11, 27, 33, 1023}

ShortFeed == [i \in 1..ShortLen |-> FilterVals]

\* one sample, of any value the converter can give in range
RangeFeed == <<0..MAX_RAW>>

CoopFeeds == {LongFeed, OutlierFeed, ShortFeed, RangeFeed}

InitCoop ==
  /\ InitCommon
  /\ feed \in CoopFeeds

\* A is asleep, or its sensor script has run out
AIdle == pcA = "sleep" \/ (pcA = "sample" /\ feed = <<>>)

BWaits == pcB = "take" /\ ~ k_sem_can_take(sem_ab)

CWaits == pcC = "done" \/ (pcC = "take" /\ ~ k_sem_can_take(sem_bc))

CoopA == ~ AIdle /\ (A_init \/ A_sample \/ A_store \/ A_give \/ A_time)

CoopB == AIdle /\ ThreadB

CoopC == AIdle /\ BWaits /\ ThreadC

CoopWake == BWaits /\ CWaits /\ A_wake

NextCoop == CoopA \/ CoopB \/ CoopC \/ CoopWake

SpecCoop == InitCoop /\ [][NextCoop]_vars

(***************************************************************************)
(* Properties                                                              *)
(***************************************************************************)
Idx == 0..(dados_size - 1)

Last(q) == q[Len(q)]

\* the sum of d over the index set S
RECURSIVE SumOver(_, _)
SumOver(d, S) ==
  IF S = {} THEN 0
  ELSE LET i == CHOOSE j \in S : TRUE IN d[i] + SumOver(d, S \ {i})

\* the truncated mean of d over S, 0 for an empty S
MeanOver(d, S) == IF S = {} THEN 0 ELSE SumOver(d, S) \div Cardinality(S)

\* the truncated mean of the non-zero entries
MeanNonZero(d) == MeanOver(d, {i \in Idx : d[i] # 0})

\* the entries within 10% of a, both ends included, in exact arithmetic
InBand(d, a) == {i \in Idx : 9 * a <= 10 * d[i] /\ 10 * d[i] <= 11 * a}

TrimmedMean(d) == MeanOver(d, InBand(d, MeanNonZero(d)))

\* B has rotated the value it read into the window
Rotated == pcB \in {"pass1", "pass2", "publish", "give", "take", "read"}

\* C1: a give on a semaphore that already counts 1 leaves it at 1, so all the
\* publishes made before one take release the consumer once (after the take
\* the count is 0 until the next give), and the consumer then observes the
\* value of the last of them: B inserts it into dados, C turns it into the pulse.
C1_LatestValueWins ==
  /\ sem_ab \in 0..1 /\ sem_bc \in 0..1
  /\ (pend = <<>> => sem_ab = 0)
  /\ (pendBC = <<>> => sem_bc = 0)
  /\ (pcB = "rotate" /\ Len(burst) >= 2 /\ pend = <<>> /\ pcA # "give")
       => dados[0] = Last(burst).val /\ Last(hist) = Last(burst).val
  /\ (pcC = "take" /\ Len(burstBC) >= 2 /\ pendBC = <<>> /\ pcB # "give")
       => pwm.pulse = PulseOf(pwmPeriod_us, Last(burstBC).val)

\* two different values were published before one take, and B read the second
C1_Witness ==
  /\ pcB = "rotate" /\ Len(burst) = 2 /\ pend = <<>> /\ pcA # "give"
  /\ burst[1].val = 500 /\ burst[2].val = 1023
  /\ dados[0] = 1023 /\ sem_ab = 0 /\ hist = <<1023>>

\* C2: a cycle whose read failed or whose sample is out of range does not
\* signal sem_ab.
C2_InvalidCycleDoesNotSignal ==
  [][(pcA = "give" /\ pcA' # "give" /\ ~ Stores(err, adc_sample_buffer))
       => sem_ab' = sem_ab]_vars

\* C3, as claimed: after 10 or more insertions the newest value is at index 0
\* and the oldest of the last ten at index 9.
C3_NewestAtFront ==
  (Rotated /\ Len(hist) >= dados_size)
    => \A i \in Idx : dados[i] = hist[Len(hist) - i]

\* C3, amended: after 10 or more insertions the window holds the last ten
\* inserted values, the newest at index 1, the older ones in order at indexes
\* 2..9 and the oldest of the ten at index 0.
C3_LastTenRotated ==
  (Rotated /\ Len(hist) >= dados_size)
    => /\ \A i \in 1..(dados_size - 1) : dados[i] = hist[Len(hist) - i + 1]
       /\ dados[0] = hist[Len(hist) - dados_size + 1]

\* an eleventh value has been inserted: the first one has been discarded
C3_Witness ==
  /\ Rotated /\ Len(hist) = dados_size + 1
  /\ dados[1] = dados_size + 1 /\ dados[0] = 2
  /\ \A i \in Idx : dados[i] # 1

\* C4: after pass 1, Avg is the truncated mean of the non-zero entries of the
\* window, and 0 when there is none.
C4_Pass1Mean == pcB = "pass2" => Avg = MeanNonZero(dados)

\* zero and non-zero entries, and a mean that is truncated
C4_Witness ==
  /\ pcB = "pass2"
  /\ \E i \in Idx : dados[i] = 0
  /\ LET nz == {i \in Idx : dados[i] # 0}
     IN  nz # {} /\ SumOver(dados, nz) % Cardinality(nz) # 0
                 /\ Avg * Cardinality(nz) < SumOver(dados, nz)

\* C5: after pass 2, Avg is the truncated mean of the entries v with
\* 9*avg1 <= 10*v <= 11*avg1, avg1 being the pass-1 mean, and 0 when there is
\* none; bc is set to it.
C5_Pass2TrimmedMean ==
  /\ pcB = "publish" => Avg = TrimmedMean(dados)
  /\ pcB = "give" => bc = TrimmedMean(dados)

\* avg1 = 30: the entries 27 and 33, on the two ends of the band, were kept
\* and the entries below the band were discarded
C5_Witness ==
  /\ pcB = "give" /\ bc = 30
  /\ LET a == MeanNonZero(dados)
     IN  /\ a = 30
         /\ \E i \in Idx : 10 * dados[i] = 9 * a
         /\ \E i \in Idx : 10 * dados[i] = 11 * a
         /\ \E i \in Idx : 10 * dados[i] < 9 * a

\* the window of the outlier scenario, in any order
OutlierValues == <<100, 102, 98, 101, 99, 400, 97, 103, 100, 98>>

Times(q, v) == Cardinality({i \in DOMAIN q : q[i] = v})

HoldsOutlierWindow ==
  \A i \in Idx : Times(dados, dados[i]) = Times(OutlierValues, dados[i])

\* C6, as claimed: with the outlier window the published mean is close to 100.
C6_CloseTo100 ==
  (pcB = "give" /\ HoldsOutlierWindow) => (bc >= 90 /\ bc <= 110)

\* C6, amended: with the outlier window avg1 is 1298/10 = 129, the band is
\* [116.1, 141.9], so the outlier 400 and the nine other values are all
\* discarded and 0 is published.
C6_OutlierWindowPublishesZero ==
  (pcB \in {"pass2", "publish", "give"} /\ HoldsOutlierWindow) =>
    /\ pcB = "pass2" => Avg = 129
    /\ pcB = "publish" => Avg = 0
    /\ pcB = "give" => bc = 0

C6_Witness == pcB = "give" /\ HoldsOutlierWindow /\ bc = 0

\* C7: from the all-zero window and bc = 0, after 500 is published and B ran
\* once: avg1 = 500, the band is [450, 550], bc = 500, and the command C
\* issues is the pulse 488 with period 1000.
C7_Startup ==
  hist = <<500>> =>
    /\ pcB = "pass2" => Avg = 500
    /\ pcB = "pass2" => Band[Avg] = <<DblOfInt(450), DblOfInt(550)>>
    /\ pcB = "publish" => Avg = 500
    /\ pcB \in {"give", "take", "read"} => bc = 500
    /\ pwm.period # 0 => pwm = [period |-> 1000, pulse |-> 488]

C7_Witness ==
  /\ hist = <<500>> /\ bc = 500
  /\ pwm = [period |-> 1000, pulse |-> 488]

\* C is back at its take after setting the PWM from the value bc still has
CommandOfBc == pcC = "take" /\ burstBC # <<>> /\ bcIt = Last(burstBC).it

\* C8: the pulse set from bc is floor(1000*bc/1023) with period 1000; it is
\* at least the pulse of the next smaller value (bc takes every value of
\* 0..1023, so the pulse never decreases as bc grows), lies in 0..1000, is
\* 1000 exactly for bc = 1023, and the product does not wrap in 32 bits.
C8_Pulse ==
  CommandOfBc =>
    /\ bc \in 0..MAX_RAW
    /\ pwm.period = 1000
    /\ pwm.pulse = (1000 * bc) \div 1023
    /\ pwm.pulse \in 0..1000
    /\ (pwm.pulse = 1000) <=> (bc = 1023)
    /\ bc > 0 => PulseOf(pwmPeriod_us, bc - 1) <= pwm.pulse
    /\ Wrap32(pwmPeriod_us * bc) = pwmPeriod_us * bc

C8_Witness == CommandOfBc /\ bc = 1023 /\ pwm.pulse = 1000

\* C9: when B has taken sem_ab, the store of the cycle that gave the signal
\* has been done; when C has taken sem_bc, the write of bc of the iteration
\* that gave the signal has been done.
C9_WriteBeforeSignal ==
  /\ pcB = "read" => (burst # <<>> /\ abCyc >= Last(burst).cyc)
  /\ pcC = "set" => (burstBC # <<>> /\ bcIt >= Last(burstBC).it)

C9_Witness ==
  /\ pcB = "read" /\ Last(burst).cyc = 2 /\ abCyc = 2 /\ ab = 1023
  /\ pcC = "set" /\ burstBC # <<>>

\* C10: at the end of every cycle of A the release instant is advanced by the
\* period and A has slept until the previous one.
C10_ReleaseAdvances ==
  [][(pcA \in {"time", "sleep"} /\ pcA' = "sample")
       => (release_time' = release_time + SAMP_PERIOD_MS /\ now' >= release_time)]_vars

\* C11: the count of each semaphore is 0 or 1 before and after every step; a
\* give on a count of 1 leaves it at 1 (and a give on 0 makes it 1), and a
\* completed take by the consumer (B for sem_ab, C for sem_bc) leaves it at 0.
C11_BinarySemaphores ==
  [][/\ sem_ab \in {0, 1} /\ sem_ab' \in {0, 1}
     /\ sem_bc \in {0, 1} /\ sem_bc' \in {0, 1}
     /\ (pcA = "give" /\ pcA' # "give") => sem_ab' = 1
     /\ (pcB = "give" /\ pcB' # "give") => sem_bc' = 1
     /\ (pcB = "take" /\ pcB' # "take") => (sem_ab = 1 /\ sem_ab' = 0)
     /\ (pcC = "take" /\ pcC' # "take") => (sem_bc = 1 /\ sem_bc' = 0)]_vars

\* two gives of sem_ab went by untaken, then B's take has emptied the count
C11_Witness ==
  /\ pcB = "read" /\ Len(burst) = 2 /\ sem_ab = 0
  /\ sem_bc = SemInitial

\* C12: whatever B and C are doing and whatever the counts are, the statement
\* thread A is at can be executed and takes A to its next statement: the
\* store leads to the give, the give leaves sem_ab at 1 and leads to the
\* timing; A waits only in k_msleep, which ends by itself.  (A_sample needs
\* feed to be non-empty only because the model explores MaxCycles cycles.)
C12_SamplerNeverBlocks ==
  /\ pcA \in {"init", "sample", "store", "give", "time", "sleep"}
  /\ pcA = "init" => ENABLED A_init
  /\ (pcA = "sample" /\ feed # <<>>) => ENABLED A_sample
  /\ pcA = "store" => ENABLED (A_store /\ pcA' = "give")
  /\ pcA = "give" => ENABLED (A_give /\ sem_ab' = 1 /\ pcA' = "time")
  /\ pcA = "time" => ENABLED A_time
  /\ pcA = "sleep" => ENABLED A_wake

\* A has completed the give of its second cycle on a count already at its
\* limit: B has not taken the first give
C12_Witness ==
  /\ pcA = "time" /\ cycA = 2 /\ Len(pend) = 2 /\ sem_ab = SemLimit /\ pcB = "take"

\* C13: a call of pwm_pin_set_usec that returns an error ends thread C
\* without changing the PWM output; once C has ended it stays ended and the
\* PWM output never changes again, while the statement thread A is at and the
\* statement thread B is at stay executable (B waits only for sem_ab, and
\* its give of sem_bc goes through with nobody left to take it).
C13_ActuatorFailureIsFatal ==
  [][/\ (pcC = "set" /\ ret' # 0) => (pcC' = "done" /\ pwm' = pwm)
     /\ pcC = "done" =>
          /\ ret # 0 /\ pcC' = "done" /\ pwm' = pwm
          /\ pcA \in {"store", "give", "time", "sleep"} => ENABLED ThreadA
          /\ (pcB # "take" \/ k_sem_can_take(sem_ab)) => ENABLED ThreadB
          /\ pcB = "give" => ENABLED (B_give /\ sem_bc' = 1 /\ pcB' = "take")
          /\ ~ ENABLED ThreadC]_vars

\* after C has ended, B has gone through a further iteration and given sem_bc
C13_Witness ==
  /\ pcC = "done" /\ ret # 0
  /\ pcB = "take" /\ Len(hist) = 2 /\ bcIt = 2
  /\ pendBC # <<>> /\ sem_bc = 1

\* C14: ab is always in 0..1023 and is 0 until a valid reading is stored; the
\* store of a cycle whose read failed or whose sample is above 1023 leaves ab
\* as it was, and the store of a valid cycle puts the sample into ab.
C14_AbInRange ==
  [][/\ ab \in 0..MAX_RAW /\ ab' \in 0..MAX_RAW
     /\ (cycA = 0 => ab = 0)
     /\ (pcA = "store" /\ pcA' # "store") =>
          /\ (err # 0 \/ adc_sample_buffer > MAX_RAW) => ab' = ab
          /\ (err = 0 /\ adc_sample_buffer <= MAX_RAW) => ab' = adc_sample_buffer
     /\ ~ (pcA = "store" /\ pcA' # "store") => ab' = ab]_vars

\* a reading of 1023 was stored, then the cycle that read 1024 has gone
\* through its store and ab still holds 1023
C14_Witness ==
  /\ cycA = 2 /\ abCyc = 2 /\ err = 0 /\ adc_sample_buffer = 1024 /\ ab = 1023

\* C15: bc is always in 0..1023, and so is Avg after either pass of the
\* filter, hence whenever B is about to copy it into bc; bc is 0 until B has
\* published a value.
C15_BcInRange ==
  /\ bc \in 0..MAX_RAW
  /\ pcB \in {"pass2", "publish"} => Avg \in 0..MAX_RAW
  /\ (hist = <<>> /\ bcIt = 0) => bc = 0

\* B has published the largest value, computed from a window of three samples
C15_Witness ==
  /\ pcB = "give" /\ bcIt = 3 /\ bc = MAX_RAW /\ dados[1] = MAX_RAW /\ dados[3] = MAX_RAW

(***************************************************************************)
(* SpecValid: the preemptive specification with a sensor whose every read  *)
(* succeeds with a sample in range, and whose samples differ from one      *)
(* cycle to the next (adc_read fills the buffer, line 125, with whatever   *)
(* the input is).                                                          *)
(***************************************************************************)
ValidFeed == [i \in 1..MaxCycles |-> {i, MAX_RAW - i}]

InitValid ==
  /\ InitCommon
  /\ feed = ValidFeed

SpecValid == InitValid /\ [][Next]_vars

\* C16: B's take of sem_ab and its read of ab act as one step with respect to
\* A, so that no stored sample is put into the window twice: the samples of
\* different cycles differ, so the values B has read are pairwise different.
C16_InsertedOnce == \A i, j \in 1..Len(hist) : i # j => hist[i] # hist[j]

(***************************************************************************)
(* SpecLive: the preemptive specification with pwm_pin_set_usec always     *)
(* returning 0 and with a scheduler that lets every thread that stays      *)
(* ready run (equal priorities, lines 41-43): weak fairness of each thread.*)
(***************************************************************************)
ThreadCOk == C_take \/ C_set

NextLive == ThreadA \/ ThreadB \/ ThreadCOk

\* one sample per cycle, each cycle its own
LiveFeed == [i \in 1..MaxCycles |-> {i}]

InitLive ==
  /\ InitCommon
  /\ feed = LiveFeed

SpecLive ==
  /\ InitLive
  /\ [][NextLive]_vars
  /\ WF_vars(ThreadA) /\ WF_vars(ThreadB) /\ WF_vars(ThreadCOk)

\* C17: B and C are always at a statement of their loops (neither has a final
\* state); a sem_ab at 1 leads to B having taken it; B past its take leads to
\* B back at its take with bc written from this iteration and sem_bc at 1; a
\* sem_bc at 1 leads to C having taken it; C past its take leads to C back at
\* its take with the PWM set from bc.
C17_PipelineProgress ==
  /\ [](pcB \in {"take", "read", "rotate", "pass1", "pass2", "publish", "give"})
  /\ [](pcC \in {"take", "set"})
  /\ (sem_ab = 1) ~> (pcB = "read" /\ sem_ab = 0)
  /\ (pcB # "take") ~> (pcB = "take" /\ bcIt = Len(hist) /\ sem_bc = 1)
  /\ (sem_bc = 1) ~> (pcC = "set" /\ sem_bc = 0)
  /\ (pcC = "set") ~> (pcC = "take"
                         /\ pwm = [period |-> pwmPeriod_us,
                                   pulse |-> PulseOf(pwmPeriod_us, bc)])

\* both gives of sem_ab have gone through the whole pipeline, which waits
C17_Witness ==
  /\ pcB = "take" /\ pcC = "take" /\ sem_ab = 0 /\ sem_bc = 0
  /\ Len(hist) = 2 /\ bcIt = 2 /\ burstBC # <<>> /\ Last(burstBC).it = 2
  /\ pwm = [period |-> pwmPeriod_us, pulse |-> PulseOf(pwmPeriod_us, bc)]

\* A has finished a cycle at or after its release instant
Overrun == pcA # "init" /\ fin_time >= release_time

ReadAt(k) == IF k >= 1 THEN hist[k] ELSE 0

\* the last dados_size values read, newest first, padded with zeros
LastRead == [i \in 1..dados_size |-> ReadAt(Len(hist) - i + 1)]

\* C19: after the rotation of every iteration of B, and before the first one,
\* dados[1] is the newest value read, dados[2..9] are the eight values read
\* before it, newest first, and dados[0] is the oldest of the last ten, with
\* 0 where fewer than ten values have been read: each of the last ten values
\* read has its own place, so dados holds them as a multiset, and every
\* value read is in dados until nine more have been read.
C19_WindowLayout ==
  Rotated =>
    /\ \A i \in 1..(dados_size - 1) : dados[i] = LastRead[i]
    /\ dados[0] = LastRead[dados_size]
    /\ \A k \in 1..Len(hist) :
         Len(hist) - k <= dados_size - 1 => \E i \in Idx : dados[i] = hist[k]

\* three values have been read: they are at 1..3, newest first, and the rest
\* of the window, index 0 included, still holds the initial zeros
C19_Witness ==
  /\ pcB = "pass1" /\ Len(hist) = 3 /\ \A k \in 1..3 : hist[k] # 0
  /\ dados[1] = hist[3] /\ dados[2] = hist[2] /\ dados[3] = hist[1]
  /\ hist[3] # hist[1]
  /\ dados[0] = 0 /\ \A i \in 4..(dados_size - 1) : dados[i] = 0

\* gives of sem_ab A has made: one in every cycle whose give is behind it
SamplerGives == cycA - (IF pcA \in {"store", "give"} THEN 1 ELSE 0)

\* takes of sem_ab B has completed: one for each value read and the one
\* whose read is still to come
FilterTakes == Len(hist) + (IF pcB = "read" THEN 1 ELSE 0)

\* writes of bc B has made: bcIt numbers them
FilterPublishes == bcIt

\* C20: B has completed at most as many takes of sem_ab as A has made gives,
\* and C has issued at most as many commands as B has written bc; before A's
\* first give B is at its take and has read and computed nothing, and before
\* B's first write of bc C has issued no command and the PWM is unset.
C20_ConsumerNeverAhead ==
  /\ FilterTakes <= SamplerGives
  /\ cmds <= FilterPublishes
  /\ SamplerGives = 0 =>
       /\ pcB = "take" /\ hist = <<>> /\ Avg = 0 /\ bc = 0
       /\ \A i \in Idx : dados[i] = 0
  /\ FilterPublishes = 0 =>
       /\ pcC = "take" /\ cmds = 0 /\ pwm = [period |-> 0, pulse |-> 0]

\* A has given twice and stopped, B has taken once and published once, C has
\* issued one command, and nothing is left to take
C20_Witness ==
  /\ SamplerGives = 2 /\ FilterTakes = 1 /\ FilterPublishes = 1 /\ cmds = 1
  /\ pcB = "take" /\ pcC = "take" /\ sem_ab = 0 /\ sem_bc = 0 /\ Len(burst) = 2

====
